---- MODULE Spec2Model ----
(***************************************************************************)
(* The todosystem store: metadata.json, lists/<name>.json and the legacy   *)
(* todos.json under one store root, the operations of TodoManager          *)
(* (src/src/cli.ts, lines 768-1065) on them, the handler of tool calls     *)
(* that serves them (lines 1273-1448) and the command methods of           *)
(* TodoSystemCLI (lines 21-620).                                           *)
(*                                                                         *)
(* A list name is the sequence of its '/'-separated segments: "work" is    *)
(* <<"work">>, "a/b" is <<"a", "b">>, "../metadata" is <<"..", "metadata">>*)
(* and the empty string is << >>.  A file path is the sequence of segments *)
(* below the store root, the ".json" extension of the last segment left    *)
(* implicit (every file the code touches ends in ".json").                 *)
(*                                                                         *)
(* Every operation is an operator from the files to an Outcome: the files  *)
(* it leaves, how it ended and what it returned.  A call that throws after *)
(* a write leaves that write behind.  The claims about an operation are    *)
(* invariants that apply the operator to every reachable store.            *)
(***************************************************************************)
EXTENDS Integers, Sequences, FiniteSets, TLC

\* fs: the files under the store root.  phase: whether init has run.  last:
\* the last call and how it ended.  procs: the operation each process has in
\* progress.  initial: the files the behaviour started on.
VARIABLES fs, phase, last, procs, initial

vars == <<fs, phase, last, procs, initial>>

----------------------------------------------------------------------------
(* Bounds *)

\* The files of the store hold at most MaxItems items between them.
MaxItems == 2

----------------------------------------------------------------------------
(* Values *)

Undefined == "undefined"

Statuses == {"pending", "in_progress", "completed"}

Priorities == {"high", "medium", "low"}

Ids == {"i1", "i2"}

Contents == {"a", "b"}

TodoItem == [id : Ids, content : Contents, status : Statuses, priority : Priorities]

NDefault == <<"default">>

NWork == <<"work">>

\* The empty string; `listName || ...` treats it like an omitted argument.
NoName == << >>

\* A name every plain object inherits from Object.prototype.
NCtor == <<"constructor">>

\* "./default": another spelling of the path of the default list's file.
NDotDefault == <<".", "default">>

\* "a/b": a file in a directory that does not exist.
NSub == <<"a", "b">>

\* "../metadata": the metadata file itself.
NUpMeta == <<"..", "metadata">>

\* What `${listName}.json` is built from when the active list is undefined.
NUndefined == <<"undefined">>

Names == {NDefault, NWork, NoName, NCtor, NDotDefault, NSub, NUpMeta}

\* 'a\b': one path segment with a backslash in it.
NBackslash == <<"a\\b">>

BackslashNames == {NBackslash}

InheritedNames == {NCtor}

----------------------------------------------------------------------------
(* Paths and the file system *)

PMeta == <<"metadata">>

PLegacy == <<"todos">>

ListsDir == <<"lists">>

RECURSIVE Normalize(_, _)
\* path.join: "." segments are dropped, ".." removes the segment before it.
Normalize(done, rest) ==
  IF rest = << >> THEN done
  ELSE IF Head(rest) = "." THEN Normalize(done, Tail(rest))
  ELSE IF Head(rest) = ".." /\ done # << >> /\ done[Len(done)] # ".."
       THEN Normalize(SubSeq(done, 1, Len(done) - 1), Tail(rest))
  ELSE Normalize(Append(done, Head(rest)), Tail(rest))

\* path.join(this.listsDir, `${listName}.json`), for every name in use.
ListFiles ==
  [n \in (Names \ {NoName}) \cup BackslashNames \cup {NUndefined} |->
     Normalize(<< >>, ListsDir \o n)]

ListFile(listName) == ListFiles[listName]

\* The directories ensureDirectories creates: the store root and lists/.
Directories == {<< >>, ListsDir}

DirName(p) == SubSeq(p, 1, Len(p) - 1)

\* The files that can exist: those whose directory exists.
AllPaths ==
  {p \in {PMeta, PLegacy} \cup {ListFiles[n] : n \in DOMAIN ListFiles} :
     DirName(p) \in Directories}

Absent == [kind |-> "absent"]

----------------------------------------------------------------------------
(* JSON: a file holds text, the code works on parsed values *)

\* JSON.stringify(todos, null, 2): one entry per item, fields in the order
\* id, content, status, priority.
StringifyTodos(todos) ==
  [kind |-> "array",
   elems |-> [i \in 1..Len(todos) |->
                <<todos[i].id, todos[i].content, todos[i].status, todos[i].priority>>]]

\* A parse that takes content and status from each other's place.
ParseTodosSwapped(text) ==
  [i \in 1..Len(text.elems) |->
     [id |-> text.elems[i][1], content |-> text.elems[i][3],
      status |-> text.elems[i][2], priority |-> text.elems[i][4]]]

\* JSON.parse(data) as TodoItem[]
ParseTodos(text) ==
  [i \in 1..Len(text.elems) |->
     [id |-> text.elems[i][1], content |-> text.elems[i][2],
      status |-> text.elems[i][3], priority |-> text.elems[i][4]]]

\* JSON.stringify(metadata, null, 2): own properties only.
StringifyMetadata(metadata) ==
  [kind |-> "object", activeList |-> metadata.activeList, lists |-> metadata.lists]

\* fs.readFile: the text of the file, Absent when there is no such file.
ReadFile(f, p) == IF p \in DOMAIN f THEN f[p] ELSE Absent

\* `metadata.lists[listName]` is truthy: an own entry or an inherited property.
HasList(lists, listName) == listName \in DOMAIN lists \/ listName \in InheritedNames

\* todos.filter(t => t.status === 'completed').length
RECURSIVE CountCompleted(_)
CountCompleted(todos) ==
  IF todos = << >> THEN 0
  ELSE (IF Head(todos).status = "completed" THEN 1 ELSE 0) + CountCompleted(Tail(todos))

\* todos.findIndex(todo => todo.id === id); 0 stands for -1.
RECURSIVE FindIndexFrom(_, _, _)
FindIndexFrom(todos, id, i) ==
  IF i > Len(todos) THEN 0
  ELSE IF todos[i].id = id THEN i
  ELSE FindIndexFrom(todos, id, i + 1)

FindIndex(todos, id) == FindIndexFrom(todos, id, 1)

\* todos.splice(todoIndex, 1)
Splice(todos, i) == SubSeq(todos, 1, i - 1) \o SubSeq(todos, i + 1, Len(todos))

NoValue == [kind |-> "void"]

\* What an operation leaves behind: the files, how it ended, what it returned.
Outcome(f, res, ret) == [fs |-> f, res |-> res, ret |-> ret]

----------------------------------------------------------------------------
(* Initialization *)

\* new Date().toISOString(): the instant an entry is built at, and a later
\* instant at which saveList stamps it.
AtCreation == "at creation"

AtSave == "at a later save"

\* An entry that counts every migrated item as completed.
MigratedEntryAllCompleted(legacyTodos) ==
  [description |-> "Default todo list (migrated from legacy)",
   created |-> AtCreation, lastModified |-> AtCreation,
   totalTodos |-> Len(legacyTodos), completedTodos |-> Len(legacyTodos)]

MigratedEntry(legacyTodos) ==
  [description |-> "Default todo list (migrated from legacy)",
   created |-> AtCreation, lastModified |-> AtCreation,
   totalTodos |-> Len(legacyTodos), completedTodos |-> CountCompleted(legacyTodos)]

\* The entry of a list that starts empty.
NewList(description) ==
  [description |-> description, created |-> AtCreation, lastModified |-> AtCreation,
   totalTodos |-> 0, completedTodos |-> 0]

EmptyEntry == NewList("Default todo list")

DefaultMetadata(entry) ==
  [activeList |-> NDefault, lists |-> [n \in {NDefault} |-> entry]]

\* A migration that does not look for an existing metadata file.
MigrateLegacyDataUnchecked(f) ==
  LET legacyData == ReadFile(f, PLegacy) IN
  IF legacyData.kind # "array" THEN f
  ELSE LET legacyTodos == ParseTodos(legacyData) IN
       IF Len(legacyTodos) > 0
       THEN [f EXCEPT ![ListFile(NDefault)] = StringifyTodos(legacyTodos),
                      ![PMeta] = StringifyMetadata(DefaultMetadata(MigratedEntry(legacyTodos))),
                      ![PLegacy] = Absent]
       ELSE f

MigrateLegacyData(f) ==
  LET legacyData == ReadFile(f, PLegacy) IN
  IF legacyData.kind # "array" THEN f
  ELSE IF ReadFile(f, PMeta) # Absent THEN f
  ELSE LET legacyTodos == ParseTodos(legacyData) IN
       IF Len(legacyTodos) > 0
       THEN [f EXCEPT ![ListFile(NDefault)] = StringifyTodos(legacyTodos),
                      ![PMeta] = StringifyMetadata(DefaultMetadata(MigratedEntry(legacyTodos))),
                      ![PLegacy] = Absent]
       ELSE f

EnsureDefaultList(f) ==
  IF ReadFile(f, PMeta) # Absent THEN f
  ELSE [f EXCEPT ![PMeta] = StringifyMetadata(DefaultMetadata(EmptyEntry)),
                 ![ListFile(NDefault)] = StringifyTodos(<< >>)]

InitStore(f) == EnsureDefaultList(MigrateLegacyData(f))

----------------------------------------------------------------------------
(* Loading and saving *)

\* loadList: any failure of the read is reported as "not found".
LoadList(f, listName) ==
  LET data == ReadFile(f, ListFile(listName)) IN
  IF data = Absent THEN Outcome(f, "notfound", NoValue)
  ELSE Outcome(f, "ok", data)

\* getActiveListName as `listName || await this.getActiveListName()` uses it:
\* an array in the metadata file has no activeList, and the name is undefined.
TargetList(f, listName) ==
  IF listName # NoName THEN Outcome(f, "ok", listName)
  ELSE LET metadata == ReadFile(f, PMeta) IN
       IF metadata = Absent THEN Outcome(f, "notinit", NoValue)
       ELSE IF metadata.kind = "object" THEN Outcome(f, "ok", metadata.activeList)
       ELSE Outcome(f, "ok", NUndefined)

Counted(todos) ==
  [totalTodos |-> Len(todos), completedTodos |-> CountCompleted(todos)]

\* The counters of an entry.
Counters(entry) ==
  [totalTodos |-> entry.totalTodos, completedTodos |-> entry.completedTodos]

\* The three assignments of saveList to metadata.lists[listName].
Stamped(entry, todos) ==
  [entry EXCEPT !.lastModified = AtSave,
                !.totalTodos = Counted(todos).totalTodos,
                !.completedTodos = Counted(todos).completedTodos]

SaveList(f, listName, todos) ==
  LET listFile == ListFile(listName) IN
  IF listFile \notin DOMAIN f THEN Outcome(f, "fault", NoValue)
  ELSE
    LET f1 == [f EXCEPT ![listFile] = StringifyTodos(todos)]
        metadata == ReadFile(f1, PMeta)
    IN IF metadata = Absent THEN Outcome(f1, "notinit", NoValue)
       ELSE IF metadata.kind # "object" THEN Outcome(f1, "fault", NoValue)
       ELSE IF ~HasList(metadata.lists, listName) THEN Outcome(f1, "ok", NoValue)
       ELSE
         LET lists1 == IF listName \in DOMAIN metadata.lists
                       THEN [metadata.lists EXCEPT ![listName] = Stamped(@, todos)]
                       ELSE metadata.lists
         IN Outcome([f1 EXCEPT ![PMeta] =
                       StringifyMetadata([activeList |-> metadata.activeList,
                                          lists |-> lists1])],
                    "ok", NoValue)

----------------------------------------------------------------------------
(* Operations of TodoManager *)

\* JSON.parse of a file's text: an item array or the metadata object.
ParseJSON(text) ==
  IF text.kind = "array" THEN [kind |-> "todos", todos |-> ParseTodos(text)]
  ELSE [kind |-> "metadata", activeList |-> text.activeList, lists |-> text.lists]

\* listName.includes('/') || listName.includes('\\'): the name has more than
\* one segment, or a backslash in a segment.
HasSeparator(listName) == Len(listName) > 1 \/ listName \in BackslashNames

AddEntry(lists, listName, entry) ==
  [n \in DOMAIN lists \cup {listName} |-> IF n = listName THEN entry ELSE lists[n]]

\* delete metadata.lists[listName]: removes an own entry only.
RemoveEntry(lists, listName) == [n \in DOMAIN lists \ {listName} |-> lists[n]]

\* fs.unlink inside try/catch: a missing file is not an error.
Unlink(f, p) == IF p \in DOMAIN f THEN [f EXCEPT ![p] = Absent] ELSE f

GetActiveListName(f) ==
  LET metadata == ReadFile(f, PMeta) IN
  IF metadata = Absent THEN Outcome(f, "notinit", NoValue)
  ELSE IF metadata.kind = "object"
       THEN Outcome(f, "ok", [kind |-> "name", name |-> metadata.activeList])
  ELSE Outcome(f, "ok", [kind |-> "name", name |-> NUndefined])

\* createList without the test for an existing list.
CreateListOverwrites(f, listName) ==
  IF listName = NoName \/ HasSeparator(listName) THEN Outcome(f, "invalid", NoValue)
  ELSE
    LET metadata == ReadFile(f, PMeta) IN
    IF metadata = Absent THEN Outcome(f, "notinit", NoValue)
    ELSE IF metadata.kind # "object" THEN Outcome(f, "fault", NoValue)
    ELSE
      LET f1 == [f EXCEPT ![PMeta] =
                   StringifyMetadata([activeList |-> metadata.activeList,
                                      lists |-> AddEntry(metadata.lists, listName, NewList(""))])]
      IN Outcome([f1 EXCEPT ![ListFile(listName)] = StringifyTodos(<< >>)], "ok",
                 [kind |-> "list", entry |-> NewList(""), name |-> listName])

CreateList(f, listName) ==
  IF listName = NoName \/ HasSeparator(listName) THEN Outcome(f, "invalid", NoValue)
  ELSE
    LET metadata == ReadFile(f, PMeta) IN
    IF metadata = Absent THEN Outcome(f, "notinit", NoValue)
    ELSE IF metadata.kind # "object" THEN Outcome(f, "fault", NoValue)
    ELSE IF HasList(metadata.lists, listName) THEN Outcome(f, "exists", NoValue)
    ELSE
      LET f1 == [f EXCEPT ![PMeta] =
                   StringifyMetadata([activeList |-> metadata.activeList,
                                      lists |-> AddEntry(metadata.lists, listName, NewList(""))])]
      IN Outcome([f1 EXCEPT ![ListFile(listName)] = StringifyTodos(<< >>)], "ok",
                 [kind |-> "list", entry |-> NewList(""), name |-> listName])

\* deleteList without the guard on 'default'.
DeleteListUnguarded(f, listName) ==
  LET metadata == ReadFile(f, PMeta) IN
  IF metadata = Absent THEN Outcome(f, "notinit", NoValue)
  ELSE IF metadata.kind # "object" THEN Outcome(f, "fault", NoValue)
  ELSE IF ~HasList(metadata.lists, listName) THEN Outcome(f, "notfound", NoValue)
  ELSE
    LET f1 == [f EXCEPT ![PMeta] =
                 StringifyMetadata(
                   [activeList |-> IF metadata.activeList = listName
                                   THEN NDefault ELSE metadata.activeList,
                    lists |-> RemoveEntry(metadata.lists, listName)])]
    IN Outcome(Unlink(f1, ListFile(listName)), "ok", NoValue)

\* deleteList that leaves activeList as it was.
DeleteListKeepsActive(f, listName) ==
  IF listName = NDefault THEN Outcome(f, "protected", NoValue)
  ELSE
    LET metadata == ReadFile(f, PMeta) IN
    IF metadata = Absent THEN Outcome(f, "notinit", NoValue)
    ELSE IF metadata.kind # "object" THEN Outcome(f, "fault", NoValue)
    ELSE IF ~HasList(metadata.lists, listName) THEN Outcome(f, "notfound", NoValue)
    ELSE
      LET f1 == [f EXCEPT ![PMeta] =
                   StringifyMetadata(
                     [activeList |-> metadata.activeList,
                      lists |-> RemoveEntry(metadata.lists, listName)])]
      IN Outcome(Unlink(f1, ListFile(listName)), "ok", NoValue)

DeleteList(f, listName) ==
  IF listName = NDefault THEN Outcome(f, "protected", NoValue)
  ELSE
    LET metadata == ReadFile(f, PMeta) IN
    IF metadata = Absent THEN Outcome(f, "notinit", NoValue)
    ELSE IF metadata.kind # "object" THEN Outcome(f, "fault", NoValue)
    ELSE IF ~HasList(metadata.lists, listName) THEN Outcome(f, "notfound", NoValue)
    ELSE
      LET f1 == [f EXCEPT ![PMeta] =
                   StringifyMetadata(
                     [activeList |-> IF metadata.activeList = listName
                                     THEN NDefault ELSE metadata.activeList,
                      lists |-> RemoveEntry(metadata.lists, listName)])]
      IN Outcome(Unlink(f1, ListFile(listName)), "ok", NoValue)

\* switchActiveList that saves the name before it looks for the list.
SwitchActiveListSavesFirst(f, listName) ==
  LET metadata == ReadFile(f, PMeta) IN
  IF metadata = Absent THEN Outcome(f, "notinit", NoValue)
  ELSE IF metadata.kind # "object" THEN Outcome(f, "fault", NoValue)
  ELSE Outcome([f EXCEPT ![PMeta] =
                  StringifyMetadata([activeList |-> listName, lists |-> metadata.lists])],
               IF HasList(metadata.lists, listName) THEN "ok" ELSE "notfound", NoValue)

SwitchActiveList(f, listName) ==
  LET metadata == ReadFile(f, PMeta) IN
  IF metadata = Absent THEN Outcome(f, "notinit", NoValue)
  ELSE IF metadata.kind # "object" THEN Outcome(f, "fault", NoValue)
  ELSE IF ~HasList(metadata.lists, listName) THEN Outcome(f, "notfound", NoValue)
  ELSE Outcome([f EXCEPT ![PMeta] =
                  StringifyMetadata([activeList |-> listName, lists |-> metadata.lists])],
               "ok", NoValue)

ReadTodos(f, listName) ==
  LET target == TargetList(f, listName) IN
  IF target.res # "ok" THEN target
  ELSE LET loaded == LoadList(f, target.ret) IN
       IF loaded.res # "ok" THEN loaded
       ELSE Outcome(f, "ok", ParseJSON(loaded.ret))

WriteTodos(f, todos, listName) ==
  LET target == TargetList(f, listName) IN
  IF target.res # "ok" THEN target
  ELSE LET saved == SaveList(f, target.ret, todos) IN
       IF saved.res # "ok" THEN saved
       ELSE Outcome(saved.fs, "ok", [kind |-> "todos", todos |-> todos])

\* priority: TodoPriority = 'medium'
DefaultPriority(priority) == IF priority = Undefined THEN "medium" ELSE priority

AddTodo(f, content, priority, listName, generatedId) ==
  LET target == TargetList(f, listName) IN
  IF target.res # "ok" THEN target
  ELSE LET loaded == LoadList(f, target.ret) IN
       IF loaded.res # "ok" THEN loaded
       ELSE IF loaded.ret.kind # "array" THEN Outcome(f, "fault", NoValue)
       ELSE
         LET newTodo == [id |-> generatedId, content |-> content,
                         status |-> "pending", priority |-> DefaultPriority(priority)]
             saved == SaveList(f, target.ret, Append(ParseTodos(loaded.ret), newTodo))
         IN IF saved.res # "ok" THEN saved
            ELSE Outcome(saved.fs, "ok", [kind |-> "todo", todo |-> newTodo])

\* A coalescing that takes the supplied value even when none was supplied.
CoalesceTakesSupplied(supplied, current) == supplied

\* updates.x ?? currentTodo.x
Coalesce(supplied, current) == IF supplied = Undefined THEN current ELSE supplied

\* updateTodo that pushes the updated item instead of replacing the old one.
UpdateTodoPushes(f, id, updates, listName) ==
  LET target == TargetList(f, listName) IN
  IF target.res # "ok" THEN target
  ELSE LET loaded == LoadList(f, target.ret) IN
       IF loaded.res # "ok" THEN loaded
       ELSE IF loaded.ret.kind # "array" THEN Outcome(f, "fault", NoValue)
       ELSE
         LET todos == ParseTodos(loaded.ret)
             todoIndex == FindIndex(todos, id)
         IN IF todoIndex = 0 THEN Outcome(f, "notfound", NoValue)
            ELSE
              LET currentTodo == todos[todoIndex]
                  updatedTodo == [id |-> currentTodo.id,
                                  content |-> Coalesce(updates.content, currentTodo.content),
                                  status |-> Coalesce(updates.status, currentTodo.status),
                                  priority |-> Coalesce(updates.priority, currentTodo.priority)]
                  saved == SaveList(f, target.ret, Append(todos, updatedTodo))
              IN IF saved.res # "ok" THEN saved
                 ELSE Outcome(saved.fs, "ok", [kind |-> "todo", todo |-> updatedTodo])

UpdateTodo(f, id, updates, listName) ==
  LET target == TargetList(f, listName) IN
  IF target.res # "ok" THEN target
  ELSE LET loaded == LoadList(f, target.ret) IN
       IF loaded.res # "ok" THEN loaded
       ELSE IF loaded.ret.kind # "array" THEN Outcome(f, "fault", NoValue)
       ELSE
         LET todos == ParseTodos(loaded.ret)
             todoIndex == FindIndex(todos, id)
         IN IF todoIndex = 0 THEN Outcome(f, "notfound", NoValue)
            ELSE
              LET currentTodo == todos[todoIndex]
                  updatedTodo == [id |-> currentTodo.id,
                                  content |-> Coalesce(updates.content, currentTodo.content),
                                  status |-> Coalesce(updates.status, currentTodo.status),
                                  priority |-> Coalesce(updates.priority, currentTodo.priority)]
                  saved == SaveList(f, target.ret, [todos EXCEPT ![todoIndex] = updatedTodo])
              IN IF saved.res # "ok" THEN saved
                 ELSE Outcome(saved.fs, "ok", [kind |-> "todo", todo |-> updatedTodo])

DeleteTodo(f, id, listName) ==
  LET target == TargetList(f, listName) IN
  IF target.res # "ok" THEN target
  ELSE LET loaded == LoadList(f, target.ret) IN
       IF loaded.res # "ok" THEN loaded
       ELSE IF loaded.ret.kind # "array" THEN Outcome(f, "fault", NoValue)
       ELSE
         LET todos == ParseTodos(loaded.ret)
             todoIndex == FindIndex(todos, id)
         IN IF todoIndex = 0 THEN Outcome(f, "notfound", NoValue)
            ELSE
              LET saved == SaveList(f, target.ret, Splice(todos, todoIndex))
              IN IF saved.res # "ok" THEN saved
                 ELSE Outcome(saved.fs, "ok", [kind |-> "todo", todo |-> todos[todoIndex]])

----------------------------------------------------------------------------
(* The store as a state machine: one process, one operation at a time *)

\* The arguments an operation can be called with.
Updates ==
  [content : Contents \cup {Undefined}, status : Statuses \cup {Undefined},
   priority : Priorities \cup {Undefined}]

NoUpdates == [content |-> Undefined, status |-> Undefined, priority |-> Undefined]

OnlyStatus(status) == [NoUpdates EXCEPT !.status = status]

FileLen(text) == IF text.kind = "array" THEN Len(text.elems) ELSE 0

RECURSIVE Enumerate(_)
Enumerate(S) ==
  IF S = {} THEN << >>
  ELSE LET x == CHOOSE y \in S : TRUE IN <<x>> \o Enumerate(S \ {x})

PathSeq == Enumerate(AllPaths)

RECURSIVE SumLen(_, _)
SumLen(f, i) == IF i > Len(PathSeq) THEN 0 ELSE FileLen(f[PathSeq[i]]) + SumLen(f, i + 1)

TotalItems(f) == SumLen(f, 1)

Called(op, outcome) == [res |-> outcome.res, op |-> op]

\* An operation in progress: where it is, the list it works on, and the item
\* array and the metadata object it holds in memory.  Idle: none in progress.
Idle ==
  [todos |-> << >>, res |-> "ok", op |-> "none", pc |-> "idle", list |-> NoName,
   meta |-> NoValue]

Procs == {"p1", "p2"}

AllIdle == [p \in Procs |-> Idle]

Init ==
  /\ fs = [p \in AllPaths |-> Absent]
  /\ phase = "start"
  /\ last = [res |-> "ok", op |-> "none"]
  /\ procs = AllIdle
  /\ initial = fs

\* init(): ensureDirectories, migrateLegacyData, ensureDefaultList.  It runs
\* at every start of a process, so also on a store that is already set up.
Initialize ==
  /\ fs' = InitStore(fs)
  /\ phase' = "ready"
  /\ last' = [res |-> IF MigrateLegacyData(fs) # fs THEN "migrated" ELSE "ok",
              op |-> "init"]
  /\ UNCHANGED <<procs, initial>>

\* An operation of the initialized store, with its outcome recorded.
Perform(op, outcome) ==
  /\ phase = "ready"
  /\ TotalItems(outcome.fs) <= MaxItems
  /\ fs' = outcome.fs
  /\ last' = Called(op, outcome)
  /\ UNCHANGED <<phase, procs, initial>>

CreateListStep(names) ==
  \E listName \in names :
    \E outcome \in {CreateList(fs, listName)} :
      Perform("createList", outcome)

DeleteListStep(names) ==
  \E listName \in names :
    \E outcome \in {DeleteList(fs, listName)} :
      Perform("deleteList", outcome)

SwitchActiveListStep(names) ==
  \E listName \in names :
    \E outcome \in {SwitchActiveList(fs, listName)} :
      Perform("switchActiveList", outcome)

WriteTodosStep(names, collections) ==
  \E listName \in names, todos \in collections :
    \E outcome \in {WriteTodos(fs, todos, listName)} :
      Perform("writeTodos", outcome)

AddTodoStep(names, contents, priorities, ids) ==
  \E listName \in names, content \in contents, priority \in priorities,
     generatedId \in ids :
    \E outcome \in {AddTodo(fs, content, priority, listName, generatedId)} :
      Perform("addTodo", outcome)

UpdateTodoStep(names, ids, updates) ==
  \E listName \in names, id \in ids, upd \in updates :
    \E outcome \in {UpdateTodo(fs, id, upd, listName)} :
      Perform("updateTodo", outcome)

DeleteTodoStep(names, ids) ==
  \E listName \in names, id \in ids :
    \E outcome \in {DeleteTodo(fs, id, listName)} :
      Perform("deleteTodo", outcome)

(* Spec: calls with the names a caller is meant to use (a list name, or none *)
(* for the active list), on items that differ in id and status.            *)

PlainNames == {NDefault, NWork, NoName}

Item(id, status) == [id |-> id, content |-> "a", status |-> status, priority |-> "medium"]

\* Written collections: empty, one item, two items, two items with one id.
PlainCollections ==
  {<< >>, <<Item("i1", "pending")>>,
   <<Item("i2", "completed"), Item("i1", "pending")>>,
   <<Item("i1", "pending"), Item("i1", "completed")>>}

PlainUpdates == {NoUpdates, OnlyStatus("completed"), OnlyStatus("pending")}

Next ==
  \/ Initialize
  \/ CreateListStep(PlainNames)
  \/ DeleteListStep(PlainNames)
  \/ SwitchActiveListStep(PlainNames)
  \/ WriteTodosStep(PlainNames, PlainCollections)
  \/ AddTodoStep(PlainNames, {"a"}, {Undefined}, Ids)
  \/ UpdateTodoStep(PlainNames, Ids, PlainUpdates)
  \/ DeleteTodoStep(PlainNames, Ids)

Spec == Init /\ [][Next]_vars

(* SpecNames: calls with every kind of name, on one item id.               *)

NextNames ==
  \/ Initialize
  \/ CreateListStep(Names)
  \/ DeleteListStep(Names)
  \/ SwitchActiveListStep(Names)
  \/ WriteTodosStep(Names, {<< >>, <<Item("i1", "pending")>>})
  \/ AddTodoStep(Names, {"a"}, {Undefined}, {"i1"})
  \/ UpdateTodoStep(Names, {"i1"}, {OnlyStatus("completed")})
  \/ DeleteTodoStep(Names, {"i1"})

SpecNames == Init /\ [][NextNames]_vars

(* SpecMigration: a process that starts on a disk an earlier version or an *)
(* earlier run left: with or without the legacy todos.json, with or        *)
(* without an initialized store.                                           *)

\* What the legacy file can hold: no item, one, two, or three of which one
\* is completed.
LegacyCollections ==
  {<< >>, <<Item("i1", "completed")>>,
   <<Item("i2", "completed"), Item("i1", "pending")>>,
   <<Item("i1", "pending"), Item("i2", "completed"), Item("i3", "pending")>>}

NoFiles == [p \in AllPaths |-> Absent]

InitialDisks ==
  {[store EXCEPT ![PLegacy] = legacy] :
     store \in {NoFiles, InitStore(NoFiles)},
     legacy \in {Absent} \cup {StringifyTodos(todos) : todos \in LegacyCollections}}

InitMigration ==
  /\ fs \in InitialDisks
  /\ phase = "start"
  /\ last = [res |-> "ok", op |-> "none"]
  /\ procs = AllIdle
  /\ initial = fs

NextMigration ==
  \/ Initialize
  \/ CreateListStep({NWork})
  \/ DeleteListStep({NWork})
  \/ SwitchActiveListStep({NDefault, NWork})
  \/ WriteTodosStep({NoName}, {<< >>, <<Item("i1", "pending")>>})
  \/ AddTodoStep({NoName}, {"a"}, {Undefined}, {"i1"})
  \/ UpdateTodoStep({NoName}, {"i1", "i2"}, {OnlyStatus("completed")})
  \/ DeleteTodoStep({NoName}, {"i1", "i2"})

SpecMigration == InitMigration /\ [][NextMigration]_vars

----------------------------------------------------------------------------
(* The protocol server: the handler of tool calls *)

\* listTodoLists: the entries of metadata.lists, each with its name.
ListTodoLists(f) ==
  LET metadata == ReadFile(f, PMeta) IN
  IF metadata = Absent THEN Outcome(f, "notinit", NoValue)
  ELSE IF metadata.kind # "object" THEN Outcome(f, "fault", NoValue)
  ELSE Outcome(f, "ok", [kind |-> "lists", lists |-> metadata.lists])

\* An optional argument that is an array: none, or the one given.
NotGiven == << >>

Given(todos) == <<todos>>

\* request.params.arguments with no argument in it.
NoArgs ==
  [id |-> Undefined, content |-> Undefined, status |-> Undefined, priority |-> Undefined,
   todos |-> NotGiven, list_name |-> NoName]

Request(name, args) == [name |-> name, arguments |-> args]

ToolNames ==
  {"todo_read", "todo_write", "todo_add", "todo_update", "todo_delete",
   "todo_list_create", "todo_list_delete", "todo_lists", "todo_list_switch"}

\* throw new Error('... parameter is required')
Required(f) == Outcome(f, "required", NoValue)

\* `typedArgs.list_name || await todoManager.getActiveListName()` after the
\* call of the manager, for the text of the answer.
ThenTargetList(outcome, list_name) ==
  IF outcome.res # "ok" THEN outcome
  ELSE IF list_name # NoName
       THEN Outcome(outcome.fs, "ok", [value |-> outcome.ret, targetList |-> list_name])
  ELSE LET active == GetActiveListName(outcome.fs) IN
       IF active.res # "ok" THEN active
       ELSE Outcome(outcome.fs, "ok", [value |-> outcome.ret, targetList |-> active.ret.name])

\* The cases that do not put the list name in their text.
WithoutTargetList(outcome) ==
  IF outcome.res # "ok" THEN outcome
  ELSE Outcome(outcome.fs, "ok", [value |-> outcome.ret.value])

\* The switch inside the try block.
Dispatch(f, request, generatedId) ==
  LET typedArgs == request.arguments IN
  CASE request.name = "todo_read" ->
         WithoutTargetList(
           ThenTargetList(ReadTodos(f, typedArgs.list_name), typedArgs.list_name))
    [] request.name = "todo_write" ->
         IF typedArgs.todos = NotGiven THEN Required(f)
         ELSE LET written == WriteTodos(f, typedArgs.todos[1], typedArgs.list_name)
                  counted == IF written.res # "ok" THEN written
                             ELSE Outcome(written.fs, "ok", Len(written.ret.todos))
              IN ThenTargetList(counted, typedArgs.list_name)
    [] request.name = "todo_add" ->
         IF typedArgs.content = Undefined THEN Required(f)
         ELSE ThenTargetList(
                AddTodo(f, typedArgs.content, typedArgs.priority, typedArgs.list_name,
                        generatedId),
                typedArgs.list_name)
    [] request.name = "todo_update" ->
         IF typedArgs.id = Undefined THEN Required(f)
         ELSE ThenTargetList(
                UpdateTodo(f, typedArgs.id,
                           [content |-> typedArgs.content, status |-> typedArgs.status,
                            priority |-> typedArgs.priority],
                           typedArgs.list_name),
                typedArgs.list_name)
    [] request.name = "todo_delete" ->
         IF typedArgs.id = Undefined THEN Required(f)
         ELSE ThenTargetList(DeleteTodo(f, typedArgs.id, typedArgs.list_name),
                             typedArgs.list_name)
    [] request.name = "todo_list_create" ->
         IF typedArgs.list_name = NoName THEN Required(f)
         ELSE CreateList(f, typedArgs.list_name)
    [] request.name = "todo_list_delete" ->
         IF typedArgs.list_name = NoName THEN Required(f)
         ELSE DeleteList(f, typedArgs.list_name)
    [] request.name = "todo_lists" ->
         LET lists == ListTodoLists(f) IN
         IF lists.res # "ok" THEN lists
         ELSE LET active == GetActiveListName(f) IN
              IF active.res # "ok" THEN active
              ELSE Outcome(f, "ok", [activeList |-> active.ret.name, lists |-> lists.ret.lists])
    [] request.name = "todo_list_switch" ->
         IF typedArgs.list_name = NoName THEN Required(f)
         ELSE SwitchActiveList(f, typedArgs.list_name)
    [] OTHER -> Outcome(f, "unknown", NoValue)

\* What the handler does with a request: it returns a response, or raises.
Returned(f, response) == [fs |-> f, response |-> response, raised |-> FALSE]

\* try { ... } catch (error) { return { content: ..., isError: true } }
Catch(outcome) ==
  IF outcome.res = "ok"
  THEN Returned(outcome.fs, [text |-> outcome.ret, isError |-> FALSE])
  ELSE Returned(outcome.fs, [text |-> [error |-> outcome.res], isError |-> TRUE])

CallTool(f, request, generatedId) == Catch(Dispatch(f, request, generatedId))

(* SpecServer: the requests a client can send, one at a time.              *)

ServerNames == {NoName, NWork, NUpMeta}

Requests ==
  {Request("todo_read", [NoArgs EXCEPT !.list_name = l]) : l \in ServerNames}
  \cup {Request("todo_write", [NoArgs EXCEPT !.todos = t, !.list_name = l]) :
          t \in {NotGiven, Given(<< >>), Given(<<Item("i1", "pending")>>)},
          l \in ServerNames}
  \cup {Request("todo_add", [NoArgs EXCEPT !.content = c, !.list_name = l]) :
          c \in {Undefined, "a"}, l \in ServerNames}
  \cup {Request("todo_update", [NoArgs EXCEPT !.id = i, !.status = "completed", !.list_name = l]) :
          i \in {Undefined, "i1"}, l \in ServerNames}
  \cup {Request("todo_delete", [NoArgs EXCEPT !.id = i, !.list_name = l]) :
          i \in {Undefined, "i1"}, l \in ServerNames}
  \cup {Request(name, [NoArgs EXCEPT !.list_name = l]) :
          name \in {"todo_list_create", "todo_list_delete", "todo_list_switch"},
          l \in {NoName, NDefault, NWork, NSub}}
  \cup {Request("todo_lists", NoArgs), Request("todo_unknown", NoArgs)}

CallToolStep(requests) ==
  \E request \in requests :
    \E called \in {CallTool(fs, request, "i1")} :
      /\ phase = "ready"
      /\ ~called.raised
      /\ TotalItems(called.fs) <= MaxItems
      /\ fs' = called.fs
      /\ last' = [res |-> IF called.response.isError
                          THEN called.response.text.error ELSE "ok",
                  op |-> request.name]
      /\ UNCHANGED <<phase, procs, initial>>

NextServer ==
  \/ Initialize
  \/ CallToolStep(Requests)

SpecServer == Init /\ [][NextServer]_vars

----------------------------------------------------------------------------
(* The command line: the command methods of TodoSystemCLI *)

\* How a command method ends: it returns after printing, or the error of an
\* awaited call it does not catch leaves the method.
Printed(f, message) == [fs |-> f, raised |-> FALSE, message |-> message]

Thrown(f, error) == [fs |-> f, raised |-> TRUE, message |-> error]

\* An awaited call of loadMetadata, loadList or saveList that failed.
Rethrown(outcome) == Thrown(outcome.fs, outcome.res)

\* todo.id.startsWith(id), for the ids and the shortened ids in use.
StartsWith(todoId, id) ==
  \/ id = todoId
  \/ id = "i" /\ todoId \in {"i1", "i2"}

\* todos.findIndex(todo => todo.id.startsWith(id)); 0 stands for -1.
RECURSIVE FindPrefixFrom(_, _, _)
FindPrefixFrom(todos, id, i) ==
  IF i > Len(todos) THEN 0
  ELSE IF StartsWith(todos[i].id, id) THEN i
  ELSE FindPrefixFrom(todos, id, i + 1)

\* A search that takes the given string for a whole id.
FindWholeId(todos, id) == FindIndex(todos, id)

FindPrefix(todos, id) == FindPrefixFrom(todos, id, 1)

\* { ...currentTodo, ...updates }: the keys of updates replace those of the item.
Spread(currentTodo, updates) ==
  [id |-> currentTodo.id,
   content |-> IF updates.content = Undefined THEN currentTodo.content ELSE updates.content,
   status |-> IF updates.status = Undefined THEN currentTodo.status ELSE updates.status,
   priority |-> IF updates.priority = Undefined THEN currentTodo.priority
                ELSE updates.priority]

CliCreateList(f, listName) ==
  IF listName = NoName \/ HasSeparator(listName) THEN Printed(f, "invalid")
  ELSE
    LET metadata == ReadFile(f, PMeta) IN
    IF metadata = Absent THEN Thrown(f, "notinit")
    ELSE IF metadata.kind # "object" THEN Thrown(f, "fault")
    ELSE IF HasList(metadata.lists, listName) THEN Printed(f, "exists")
    ELSE
      LET f1 == [f EXCEPT ![PMeta] =
                   StringifyMetadata([activeList |-> metadata.activeList,
                                      lists |-> AddEntry(metadata.lists, listName, NewList(""))])]
      IN Printed([f1 EXCEPT ![ListFile(listName)] = StringifyTodos(<< >>)], "ok")

CliDeleteList(f, listName) ==
  IF listName = NDefault THEN Printed(f, "protected")
  ELSE
    LET metadata == ReadFile(f, PMeta) IN
    IF metadata = Absent THEN Thrown(f, "notinit")
    ELSE IF metadata.kind # "object" THEN Thrown(f, "fault")
    ELSE IF ~HasList(metadata.lists, listName) THEN Printed(f, "notfound")
    ELSE
      LET f1 == [f EXCEPT ![PMeta] =
                   StringifyMetadata(
                     [activeList |-> IF metadata.activeList = listName
                                     THEN NDefault ELSE metadata.activeList,
                      lists |-> RemoveEntry(metadata.lists, listName)])]
      IN Printed(Unlink(f1, ListFile(listName)), "ok")

CliSwitchList(f, listName) ==
  LET metadata == ReadFile(f, PMeta) IN
  IF metadata = Absent THEN Thrown(f, "notinit")
  ELSE IF metadata.kind # "object" THEN Thrown(f, "fault")
  ELSE IF ~HasList(metadata.lists, listName) THEN Printed(f, "notfound")
  ELSE Printed([f EXCEPT ![PMeta] =
                  StringifyMetadata([activeList |-> listName, lists |-> metadata.lists])],
               "ok")

CliAddTodo(f, content, priority, listName, generatedId) ==
  LET target == TargetList(f, listName) IN
  IF target.res # "ok" THEN Rethrown(target)
  ELSE LET loaded == LoadList(f, target.ret) IN
       IF loaded.res # "ok" THEN Rethrown(loaded)
       ELSE IF loaded.ret.kind # "array" THEN Thrown(f, "fault")
       ELSE
         LET newTodo == [id |-> generatedId, content |-> content,
                         status |-> "pending", priority |-> DefaultPriority(priority)]
             saved == SaveList(f, target.ret, Append(ParseTodos(loaded.ret), newTodo))
         IN IF saved.res # "ok" THEN Rethrown(saved) ELSE Printed(saved.fs, "ok")

CliUpdateTodo(f, id, updates, listName) ==
  LET target == TargetList(f, listName) IN
  IF target.res # "ok" THEN Rethrown(target)
  ELSE LET loaded == LoadList(f, target.ret) IN
       IF loaded.res # "ok" THEN Rethrown(loaded)
       ELSE IF loaded.ret.kind # "array" THEN Thrown(f, "fault")
       ELSE
         LET todos == ParseTodos(loaded.ret)
             todoIndex == FindPrefix(todos, id)
         IN IF todoIndex = 0 THEN Printed(f, "idnotfound")
            ELSE
              LET saved == SaveList(f, target.ret,
                                    [todos EXCEPT ![todoIndex] = Spread(todos[todoIndex], updates)])
              IN IF saved.res # "ok" THEN Rethrown(saved) ELSE Printed(saved.fs, "ok")

CliDeleteTodo(f, id, listName) ==
  LET target == TargetList(f, listName) IN
  IF target.res # "ok" THEN Rethrown(target)
  ELSE LET loaded == LoadList(f, target.ret) IN
       IF loaded.res # "ok" THEN Rethrown(loaded)
       ELSE IF loaded.ret.kind # "array" THEN Thrown(f, "fault")
       ELSE
         LET todos == ParseTodos(loaded.ret)
             todoIndex == FindPrefix(todos, id)
         IN IF todoIndex = 0 THEN Printed(f, "idnotfound")
            ELSE
              LET saved == SaveList(f, target.ret, Splice(todos, todoIndex))
              IN IF saved.res # "ok" THEN Rethrown(saved) ELSE Printed(saved.fs, "ok")

CliListTodos(f, listName) ==
  LET target == TargetList(f, listName) IN
  IF target.res # "ok" THEN Rethrown(target)
  ELSE LET loaded == LoadList(f, target.ret) IN
       IF loaded.res # "ok" THEN Rethrown(loaded)
       ELSE IF loaded.ret.kind # "array" THEN Thrown(f, "fault")
       ELSE Printed(f, "ok")

CliStatus(f, listName) ==
  IF listName # NoName
  THEN LET loaded == LoadList(f, listName) IN
       IF loaded.res # "ok" THEN Rethrown(loaded)
       ELSE IF loaded.ret.kind # "array" THEN Thrown(f, "fault")
       ELSE Printed(f, "ok")
  ELSE LET metadata == ReadFile(f, PMeta) IN
       IF metadata = Absent THEN Thrown(f, "notinit")
       ELSE IF metadata.kind # "object" THEN Thrown(f, "fault")
       ELSE Printed(f, "ok")

(* SpecCli: one command after the other, `init` among them; nothing makes  *)
(* a user run `init` first.                                                *)

CliIds == {"i", "i1", "i2"}

\* A command that has run, with how it ended.
Ran(command, ended) ==
  /\ TotalItems(ended.fs) <= MaxItems
  /\ fs' = ended.fs
  /\ last' = [res |-> IF ended.raised THEN "raised" ELSE ended.message, op |-> command]
  /\ UNCHANGED <<phase, procs, initial>>

CliCreateListStep ==
  \E listName \in PlainNames : \E ended \in {CliCreateList(fs, listName)} : Ran("create", ended)

CliDeleteListStep ==
  \E listName \in PlainNames : \E ended \in {CliDeleteList(fs, listName)} : Ran("delete-list", ended)

CliSwitchListStep ==
  \E listName \in PlainNames : \E ended \in {CliSwitchList(fs, listName)} : Ran("switch", ended)

CliAddTodoStep ==
  \E listName \in PlainNames, generatedId \in Ids :
    \E ended \in {CliAddTodo(fs, "a", Undefined, listName, generatedId)} : Ran("add", ended)

CliUpdateTodoStep ==
  \E listName \in PlainNames, id \in CliIds, upd \in PlainUpdates :
    \E ended \in {CliUpdateTodo(fs, id, upd, listName)} : Ran("update", ended)

CliDeleteTodoStep ==
  \E listName \in PlainNames, id \in CliIds :
    \E ended \in {CliDeleteTodo(fs, id, listName)} : Ran("delete", ended)

CliListTodosStep ==
  \E listName \in PlainNames : \E ended \in {CliListTodos(fs, listName)} : Ran("list", ended)

CliStatusStep ==
  \E listName \in PlainNames : \E ended \in {CliStatus(fs, listName)} : Ran("status", ended)

NextCli ==
  \/ Initialize
  \/ CliCreateListStep
  \/ CliDeleteListStep
  \/ CliSwitchListStep
  \/ CliAddTodoStep
  \/ CliUpdateTodoStep
  \/ CliDeleteTodoStep
  \/ CliListTodosStep
  \/ CliStatusStep

SpecCli == Init /\ [][NextCli]_vars

----------------------------------------------------------------------------
(* Operations step by step: every awaited file access is a step of its own, *)
(* and another process, or another call in the same process, can run       *)
(* between two of them.  What the code does between two awaits is part of  *)
(* the step that precedes it.                                              *)

\* What a display is generated from: the items of the parsed file.
ItemsShown(text) == IF text.kind = "array" THEN ParseTodos(text) ELSE << >>

\* An operation that has started: its next step, the list it works on and the
\* items it holds.
Running(op, pc, listName, todos) ==
  [todos |-> todos, res |-> "running", op |-> op, pc |-> pc, list |-> listName,
   meta |-> NoValue]

\* The operation returned ("ok") or threw.
Ended(s, res) == [s EXCEPT !.pc = "done", !.res = res]

At(s, pc) == [s EXCEPT !.pc = pc]

\* A step: the files it leaves and the operation after it.
Moved(f, s) == [fs |-> f, proc |-> s]

\* `listName || await this.getActiveListName()` of addTodo and writeTodos,
\* when no name was given.
GetActiveListNameStep(f, s) ==
  LET target == TargetList(f, NoName) IN
  IF target.res # "ok" THEN Moved(f, Ended(s, target.res))
  ELSE Moved(f, [s EXCEPT !.list = target.ret,
                          !.pc = IF s.op = "addTodo" THEN "addTodo.loadList"
                                 ELSE "saveList.writeFile"])

\* An addTodo that saves the new item alone, without the items it loaded.
AddTodoLoadListDropsLoaded(f, s) ==
  LET loaded == LoadList(f, s.list) IN
  IF loaded.res # "ok" THEN Moved(f, Ended(s, loaded.res))
  ELSE IF loaded.ret.kind # "array" THEN Moved(f, Ended(s, "fault"))
  ELSE Moved(f, [s EXCEPT !.pc = "saveList.writeFile"])

\* `const todos = await this.loadList(targetList)` of addTodo, then the push
\* of the new item onto the array in memory.
AddTodoLoadList(f, s) ==
  LET loaded == LoadList(f, s.list) IN
  IF loaded.res # "ok" THEN Moved(f, Ended(s, loaded.res))
  ELSE IF loaded.ret.kind # "array" THEN Moved(f, Ended(s, "fault"))
  ELSE Moved(f, [s EXCEPT !.pc = "saveList.writeFile",
                          !.todos = ParseTodos(loaded.ret) \o s.todos])

\* `await fs.writeFile(listFile, JSON.stringify(todos, null, 2))` of saveList.
SaveListWriteFile(f, s) ==
  IF ListFile(s.list) \notin DOMAIN f THEN Moved(f, Ended(s, "fault"))
  ELSE Moved([f EXCEPT ![ListFile(s.list)] = StringifyTodos(s.todos)],
             At(s, "saveList.loadMetadata"))

\* `const metadata = await this.loadMetadata()` of saveList, then the three
\* assignments to the entry of the object in memory.
SaveListLoadMetadata(f, s) ==
  LET metadata == ReadFile(f, PMeta) IN
  IF metadata = Absent THEN Moved(f, Ended(s, "notinit"))
  ELSE IF metadata.kind # "object" THEN Moved(f, Ended(s, "fault"))
  ELSE IF ~HasList(metadata.lists, s.list) THEN Moved(f, Ended(s, "ok"))
  ELSE
    LET lists1 == IF s.list \in DOMAIN metadata.lists
                  THEN [metadata.lists EXCEPT ![s.list] = Stamped(@, s.todos)]
                  ELSE metadata.lists
    IN Moved(f, [s EXCEPT !.pc = "saveList.saveMetadata",
                          !.meta = [kind |-> "metadata",
                                    activeList |-> metadata.activeList,
                                    lists |-> lists1]])

\* `await this.saveMetadata(metadata)` of saveList: the whole object is written.
SaveListSaveMetadata(f, s) ==
  Moved([f EXCEPT ![PMeta] = StringifyMetadata(s.meta)], Ended(s, "ok"))

\* `const metadata = await this.loadMetadata()` of createList, then the test
\* for an existing list and the new entry in the object in memory.
CreateListLoadMetadata(f, s) ==
  LET metadata == ReadFile(f, PMeta) IN
  IF metadata = Absent THEN Moved(f, Ended(s, "notinit"))
  ELSE IF metadata.kind # "object" THEN Moved(f, Ended(s, "fault"))
  ELSE IF HasList(metadata.lists, s.list) THEN Moved(f, Ended(s, "exists"))
  ELSE Moved(f, [s EXCEPT !.pc = "createList.saveMetadata",
                          !.meta = [kind |-> "metadata",
                                    activeList |-> metadata.activeList,
                                    lists |-> AddEntry(metadata.lists, s.list,
                                                       NewList(""))]])

\* `await this.saveMetadata(metadata)` of createList.
CreateListSaveMetadata(f, s) ==
  Moved([f EXCEPT ![PMeta] = StringifyMetadata(s.meta)], At(s, "createList.writeFile"))

\* `await fs.writeFile(listFile, JSON.stringify([], null, 2))` of createList.
CreateListWriteFile(f, s) ==
  Moved([f EXCEPT ![ListFile(s.list)] = StringifyTodos(<< >>)], Ended(s, "ok"))

\* `await fs.readFile(this.legacyTodoFile, 'utf8')` of migrateLegacyData and
\* the parse: a failure of either ends the migration.
MigrateReadLegacy(f, s) ==
  LET legacyData == ReadFile(f, PLegacy) IN
  IF legacyData.kind # "array" THEN Moved(f, At(s, "ensureDefaultList.access"))
  ELSE Moved(f, [s EXCEPT !.pc = "migrateLegacyData.access",
                          !.todos = ParseTodos(legacyData)])

\* `await fs.access(this.metadataFile)` of migrateLegacyData, then the test of
\* legacyTodos.length.
MigrateAccess(f, s) ==
  IF ReadFile(f, PMeta) # Absent THEN Moved(f, At(s, "ensureDefaultList.access"))
  ELSE IF Len(s.todos) > 0 THEN Moved(f, At(s, "migrateLegacyData.writeList"))
  ELSE Moved(f, At(s, "ensureDefaultList.access"))

MigrateWriteList(f, s) ==
  Moved([f EXCEPT ![ListFile(NDefault)] = StringifyTodos(s.todos)],
        At(s, "migrateLegacyData.writeMetadata"))

MigrateWriteMetadata(f, s) ==
  Moved([f EXCEPT ![PMeta] = StringifyMetadata(DefaultMetadata(MigratedEntry(s.todos)))],
        At(s, "migrateLegacyData.unlink"))

\* `await fs.unlink(this.legacyTodoFile)`: a failure is caught.
MigrateUnlink(f, s) == Moved(Unlink(f, PLegacy), At(s, "ensureDefaultList.access"))

\* `await fs.access(this.metadataFile)` of ensureDefaultList.
EnsureAccess(f, s) ==
  IF ReadFile(f, PMeta) # Absent THEN Moved(f, Ended(s, "ok"))
  ELSE Moved(f, At(s, "ensureDefaultList.writeMetadata"))

EnsureWriteMetadata(f, s) ==
  Moved([f EXCEPT ![PMeta] = StringifyMetadata(DefaultMetadata(EmptyEntry))],
        At(s, "ensureDefaultList.writeList"))

EnsureWriteList(f, s) ==
  Moved([f EXCEPT ![ListFile(NDefault)] = StringifyTodos(<< >>)], Ended(s, "ok"))

\* `listName || await this.getActiveListName()` of watchTodos.
WatchGetActiveListName(f, s) ==
  LET target == TargetList(f, s.list) IN
  IF target.res # "ok" THEN Moved(f, Ended(s, target.res))
  ELSE Moved(f, [s EXCEPT !.pc = "watch.loadList", !.list = target.ret])

\* The initial render of watchTodos: `await this.loadList(targetList)`, the
\* display, then watch(listFile, ...) and the SIGINT handler are set up.
WatchLoadList(f, s) ==
  LET loaded == LoadList(f, s.list) IN
  IF loaded.res # "ok" THEN Moved(f, Ended(s, loaded.res))
  ELSE Moved(f, [s EXCEPT !.todos = ItemsShown(loaded.ret), !.pc = "watch.watching"])

\* A refresh that saves what it loaded.
WatchRefreshSaves(f, s) ==
  LET loaded == LoadList(f, s.list) IN
  IF loaded.res # "ok" THEN Moved(f, [s EXCEPT !.res = "skipped", !.pc = "watch.watching"])
  ELSE Moved(SaveList(f, s.list, ItemsShown(loaded.ret)).fs,
             [s EXCEPT !.todos = ItemsShown(loaded.ret), !.res = "refreshed",
                       !.pc = "watch.watching"])

\* The timer callback of the watcher: the list is loaded and displayed again;
\* a failed read is caught and the refresh skipped.
WatchRefresh(f, s) ==
  LET loaded == LoadList(f, s.list) IN
  IF loaded.res # "ok" THEN Moved(f, [s EXCEPT !.res = "skipped", !.pc = "watch.watching"])
  ELSE Moved(f, [s EXCEPT !.todos = ItemsShown(loaded.ret), !.res = "refreshed",
                          !.pc = "watch.watching"])

\* The step an operation in progress takes next.
Continue(f, s) ==
  CASE s.pc = "getActiveListName" -> GetActiveListNameStep(f, s)
    [] s.pc = "watch.getActiveListName" -> WatchGetActiveListName(f, s)
    [] s.pc = "watch.loadList" -> WatchLoadList(f, s)
    [] s.pc = "watch.refresh" -> WatchRefresh(f, s)
    [] s.pc = "addTodo.loadList" -> AddTodoLoadList(f, s)
    [] s.pc = "saveList.writeFile" -> SaveListWriteFile(f, s)
    [] s.pc = "saveList.loadMetadata" -> SaveListLoadMetadata(f, s)
    [] s.pc = "saveList.saveMetadata" -> SaveListSaveMetadata(f, s)
    [] s.pc = "createList.loadMetadata" -> CreateListLoadMetadata(f, s)
    [] s.pc = "createList.saveMetadata" -> CreateListSaveMetadata(f, s)
    [] s.pc = "createList.writeFile" -> CreateListWriteFile(f, s)
    [] s.pc = "migrateLegacyData.readFile" -> MigrateReadLegacy(f, s)
    [] s.pc = "migrateLegacyData.access" -> MigrateAccess(f, s)
    [] s.pc = "migrateLegacyData.writeList" -> MigrateWriteList(f, s)
    [] s.pc = "migrateLegacyData.writeMetadata" -> MigrateWriteMetadata(f, s)
    [] s.pc = "migrateLegacyData.unlink" -> MigrateUnlink(f, s)
    [] s.pc = "ensureDefaultList.access" -> EnsureAccess(f, s)
    [] s.pc = "ensureDefaultList.writeMetadata" -> EnsureWriteMetadata(f, s)
    [] s.pc = "ensureDefaultList.writeList" -> EnsureWriteList(f, s)

\* addTodo(content, priority, listName) up to its first await.
AddTodoCalled(content, priority, listName, generatedId) ==
  Running("addTodo",
          IF listName = NoName THEN "getActiveListName" ELSE "addTodo.loadList",
          listName,
          <<[id |-> generatedId, content |-> content, status |-> "pending",
             priority |-> DefaultPriority(priority)]>>)

\* writeTodos(todos, listName) up to its first await.
WriteTodosCalled(todos, listName) ==
  Running("writeTodos",
          IF listName = NoName THEN "getActiveListName" ELSE "saveList.writeFile",
          listName, todos)

\* createList(listName) up to its first await: the name is tested first.
CreateListCalled(listName) ==
  IF listName = NoName \/ HasSeparator(listName)
  THEN Ended(Running("createList", "done", listName, << >>), "invalid")
  ELSE Running("createList", "createList.loadMetadata", listName, << >>)

\* watchTodos(listName) up to its first await.
WatchTodosCalled(listName) ==
  Running("watch",
          IF listName = NoName THEN "watch.getActiveListName" ELSE "watch.loadList",
          listName, << >>)

\* init() as the constructor calls it: the directories are there, the
\* migration comes first.
InitCalled == Running("init", "migrateLegacyData.readFile", NoName, << >>)

RECURSIVE RunAlone(_, _)
\* An operation run to its end with nothing in between.
RunAlone(f, s) ==
  IF s.pc = "done" THEN Moved(f, s)
  ELSE LET m == Continue(f, s) IN RunAlone(m.fs, m.proc)

InProgress(s) == s.pc \notin {"idle", "done"}

Quiet == \A p \in Procs : ~InProgress(procs[p])

\* Process p calls an operation.
Start(p, called) ==
  /\ procs[p].pc = "idle"
  /\ procs' = [procs EXCEPT ![p] = called]
  /\ UNCHANGED <<fs, phase, last, initial>>

\* Process p takes the next step of its operation.
Step(p) ==
  /\ InProgress(procs[p])
  /\ procs[p].pc # "watch.watching"
  /\ LET m == Continue(fs, procs[p]) IN
       /\ fs' = m.fs
       /\ procs' = [procs EXCEPT ![p] = m.proc]
  /\ UNCHANGED <<phase, last, initial>>

AddTodoStart(p, names, ids) ==
  \E l \in names, id \in ids : Start(p, AddTodoCalled("a", Undefined, l, id))

WriteTodosStart(p, names, collections) ==
  \E l \in names, todos \in collections : Start(p, WriteTodosCalled(todos, l))

CreateListStart(p, names) == \E l \in names : Start(p, CreateListCalled(l))

InitStart(p) == Start(p, InitCalled)

WatchTodosStart(p, names) == \E l \in names : Start(p, WatchTodosCalled(l))

\* The watcher of process p reports a change of the file: the callback sets
\* the timer of the refresh.
WatchNotify(p) ==
  /\ procs[p].pc = "watch.watching"
  /\ procs' = [procs EXCEPT ![p] = At(@, "watch.refresh")]
  /\ UNCHANGED <<fs, phase, last, initial>>

\* SIGINT: the handler closes the watcher and the process exits.
WatchInterrupt(p) ==
  /\ procs[p].pc \in {"watch.watching", "watch.refresh"}
  /\ procs' = [procs EXCEPT ![p] = Ended(@, "closed")]
  /\ UNCHANGED <<fs, phase, last, initial>>

(* SpecRace: two processes on an initialized store, each running one       *)
(* operation, their steps in any order.                                    *)

OwnId == [p \in Procs |-> IF p = "p1" THEN "i1" ELSE "i2"]

RaceNames == {NDefault, NWork}

RaceCollections == {<< >>, <<Item("i3", "completed")>>}

\* The stores a race starts on: 'default' empty or with one item, with or
\* without a second list.
RaceDisks ==
  {WriteTodos(store, todos, NDefault).fs :
     store \in {InitStore(NoFiles), CreateList(InitStore(NoFiles), NWork).fs},
     todos \in {<< >>, <<Item("i3", "pending")>>}}

InitRace ==
  /\ fs \in RaceDisks
  /\ phase = "ready"
  /\ last = [res |-> "ok", op |-> "none"]
  /\ procs = AllIdle
  /\ initial = fs

NextRace ==
  \E p \in Procs :
    \/ AddTodoStart(p, RaceNames, {OwnId[p]})
    \/ WriteTodosStart(p, RaceNames, RaceCollections)
    \/ CreateListStart(p, {NWork})
    \/ Step(p)

SpecRace == InitRace /\ [][NextRace]_vars

(* SpecStartup: the server process from `new TodoManager()` on: init() runs *)
(* un-awaited as process p1 of the event loop, a tool call as p2, on a disk *)
(* with or without a store and a legacy file.                               *)

InitStartup ==
  /\ fs \in InitialDisks
  /\ phase = "start"
  /\ last = [res |-> "ok", op |-> "none"]
  /\ procs = AllIdle
  /\ initial = fs

\* A tool call arrives once the constructor has run.
NextStartup ==
  \/ InitStart("p1")
  \/ Step("p1")
  \/ /\ procs["p1"].op = "init"
     /\ \/ WriteTodosStart("p2", {NDefault, NoName}, {<< >>, <<Item("i1", "pending")>>})
        \/ AddTodoStart("p2", {NDefault, NoName}, {"i2"})
        \/ Step("p2")

SpecStartup == InitStartup /\ [][NextStartup]_vars

(* SpecWatch: `todosystem watch` in one process while another process runs *)
(* operations on the store, one at a time.                                  *)

NextWatch ==
  \/ WatchTodosStart("p1", {NoName, NDefault, NWork})
  \/ Step("p1")
  \/ WatchNotify("p1")
  \/ WatchInterrupt("p1")
  \/ CreateListStep({NWork})
  \/ DeleteListStep({NWork})
  \/ SwitchActiveListStep({NDefault, NWork})
  \/ WriteTodosStep({NDefault, NWork}, RaceCollections)

SpecWatch == InitRace /\ [][NextWatch]_vars

----------------------------------------------------------------------------
(* The store root: where the command line and the server look for the store *)

\* A directory is the sequence of its names below '/'.
HomeDir == <<"home">>

DataDir == <<"data">>

WorkingDirs == {<<"proj">>, <<"proj", "sub">>}

\* What a process starts with: process.cwd(), process.env.TODOSYSTEM_DIR (set
\* or not) and os.homedir().
Environments ==
  [cwd : WorkingDirs, TODOSYSTEM_DIR : {NotGiven, Given(DataDir)}, home : {HomeDir}]

\* TodoSystemCLI: path.join(process.cwd(), '.todosystem')
CliRoot(e) == e.cwd \o <<".todosystem">>

\* fs.existsSync(todoSystemDir): a store was initialized there.
ExistsSync(disk, dir) == dir \in DOMAIN disk /\ disk[dir] # NoFiles

RECURSIVE FindFrom(_, _, _)
\* The loop of findTodoSystemDir: from currentDir up to, and without, '/'.
FindFrom(disk, currentDir, cwd) ==
  IF currentDir = << >> THEN cwd \o <<".todosystem">>
  ELSE IF ExistsSync(disk, currentDir \o <<".todosystem">>)
       THEN currentDir \o <<".todosystem">>
  ELSE FindFrom(disk, DirName(currentDir), cwd)

\* TodoManager.findTodoSystemDir
FindTodoSystemDir(disk, e) == FindFrom(disk, e.cwd, e.cwd)

\* getTodoSystemDir: the environment variable, else the home directory.
GetTodoSystemDir(e) ==
  IF e.TODOSYSTEM_DIR # NotGiven THEN e.TODOSYSTEM_DIR[1]
  ELSE e.home \o <<".todosystem">>

\* The TodoManager of the TypeScript source and the one of the compiled server.
Builds == {"findTodoSystemDir", "getTodoSystemDir"}

\* The store root of a server of the given build.
ServerRoot(build, disk, e) ==
  IF build = "findTodoSystemDir" THEN FindTodoSystemDir(disk, e) ELSE GetTodoSystemDir(e)

Roots ==
  {CliRoot(e) : e \in Environments} \cup {GetTodoSystemDir(e) : e \in Environments}

RootSeq == Enumerate(Roots)

RECURSIVE SumItems(_, _)
SumItems(disk, i) ==
  IF i > Len(RootSeq) THEN 0 ELSE TotalItems(disk[RootSeq[i]]) + SumItems(disk, i + 1)

\* A command or a tool call on the store under root: what it leaves there.
Under(disk, root, store) == [disk EXCEPT ![root] = store]

\* `todosystem init` in environment e.
CliInitAt(disk, e) == Under(disk, CliRoot(e), InitStore(disk[CliRoot(e)]))

\* `todosystem add` in environment e.
CliAddAt(disk, e, generatedId) ==
  Under(disk, CliRoot(e), CliAddTodo(disk[CliRoot(e)], "a", Undefined, NoName, generatedId).fs)

\* The server started in environment e: the constructor runs init().
ServerStartAt(build, disk, e) ==
  Under(disk, ServerRoot(build, disk, e), InitStore(disk[ServerRoot(build, disk, e)]))

\* The server started in environment e, then a todo_add call.
ServerAddAt(build, disk, e, generatedId) ==
  LET root == ServerRoot(build, disk, e) IN
  Under(disk, root, AddTodo(InitStore(disk[root]), "a", Undefined, NoName, generatedId).fs)

(* SpecRoots: commands and servers started in any environment, on a disk   *)
(* with no store at first.  fs maps every store root to the files under it. *)

InitRoots ==
  /\ fs = [root \in Roots |-> NoFiles]
  /\ phase = "ready"
  /\ last = [res |-> "ok", op |-> "none"]
  /\ procs = AllIdle
  /\ initial = fs

\* A command or a server that ran in environment e: the disk it leaves.
Started(op, build, e, disk) ==
  /\ SumItems(disk, 1) <= MaxItems
  /\ fs' = disk
  /\ last' = [res |-> IF disk = fs THEN "unchanged" ELSE "ok", op |-> op,
              build |-> build, env |-> e]
  /\ UNCHANGED <<phase, procs, initial>>

CliInitStep == \E e \in Environments : Started("init", "cli", e, CliInitAt(fs, e))

CliAddStep == \E e \in Environments : Started("add", "cli", e, CliAddAt(fs, e, "i1"))

ServerStartStep ==
  \E e \in Environments, build \in Builds :
    Started("server", build, e, ServerStartAt(build, fs, e))

ServerAddStep ==
  \E e \in Environments, build \in Builds :
    Started("todo_add", build, e, ServerAddAt(build, fs, e, "i1"))

NextRoots ==
  \/ CliInitStep
  \/ CliAddStep
  \/ ServerStartStep
  \/ ServerAddStep

SpecRoots == InitRoots /\ [][NextRoots]_vars

----------------------------------------------------------------------------
(* Properties *)

Ready == phase = "ready"

\* The metadata file holds a metadata object.
MetadataLoaded(f) == ReadFile(f, PMeta).kind = "object"

Lists(f) == ReadFile(f, PMeta).lists

ActiveList(f) == ReadFile(f, PMeta).activeList

\* C1: after initialization, whatever operations were called with whatever
\* names, metadata.activeList is the name of an entry of metadata.lists.
ActiveListIsAnEntry ==
  (Ready /\ MetadataLoaded(fs)) => ActiveList(fs) \in DOMAIN Lists(fs)

\* C2: after initialization, metadata.lists has an entry 'default' and the
\* item file of 'default' exists.
DefaultListExists ==
  Ready => /\ MetadataLoaded(fs)
           /\ NDefault \in DOMAIN Lists(fs)
           /\ ReadFile(fs, ListFile(NDefault)) # Absent

\* C3: deleteList('default') fails with the protected-resource error and
\* changes no file, whatever 'default' holds, whichever list is active and
\* whatever other lists exist.
DeleteDefaultIsRejected ==
  Ready => /\ DeleteList(fs, NDefault).res = "protected"
           /\ DeleteList(fs, NDefault).fs = fs

\* deleteList('default') was just refused on a store whose default list has
\* items, that has another list, and whose active list is that other list.
DeleteDefaultIsRejectedWitness ==
  /\ Ready
  /\ last = [res |-> "protected", op |-> "deleteList"]
  /\ MetadataLoaded(fs)
  /\ ActiveList(fs) = NWork
  /\ NWork \in DOMAIN Lists(fs)
  /\ FileLen(fs[ListFile(NDefault)]) > 0

\* C4: when deleteList(n) succeeds and n was the active list, the next
\* getActiveListName() returns 'default'; when n was not the active list,
\* getActiveListName() returns what it returned before.
DeleteListResetsActive ==
  Ready =>
    \A n \in Names :
      LET deleted == DeleteList(fs, n) IN
      deleted.res = "ok" =>
        IF ActiveList(fs) = n
        THEN GetActiveListName(deleted.fs) =
               Outcome(deleted.fs, "ok", [kind |-> "name", name |-> NDefault])
        ELSE /\ GetActiveListName(deleted.fs).res = "ok"
             /\ GetActiveListName(deleted.fs).ret = GetActiveListName(fs).ret

\* The active list is 'work', and deleting it succeeds.
DeleteListResetsActiveWitness ==
  /\ Ready
  /\ MetadataLoaded(fs)
  /\ last = [res |-> "ok", op |-> "switchActiveList"]
  /\ ActiveList(fs) = NWork
  /\ DeleteList(fs, NWork).res = "ok"

\* The names that are one path segment.
SimpleNames == {n \in DOMAIN ListFiles : ~HasSeparator(n)}

\* The items of the file at path p, none when it is not an item file.
ItemsAt(f, p) ==
  IF ReadFile(f, p).kind = "array" THEN ParseTodos(ReadFile(f, p)) ELSE << >>

\* The items of the file the list name stands for.
ItemsOf(f, listName) == ItemsAt(f, ListFile(listName))

DistinctIds(todos) ==
  \A i, j \in 1..Len(todos) : todos[i].id = todos[j].id => i = j

IdsOf(f, listName) == {ItemsOf(f, listName)[i].id : i \in 1..Len(ItemsOf(f, listName))}

\* Every file whose ids are distinct in f has distinct ids in g.
KeepsDistinct(f, g) ==
  \A p \in AllPaths : DistinctIds(ItemsAt(f, p)) => DistinctIds(ItemsAt(g, p))

\* Collections and field updates the operations are tried with.
RichItem == [id |-> "i2", content |-> "b", status |-> "in_progress", priority |-> "low"]

TriedCollections ==
  PlainCollections \cup {<<RichItem, Item("i1", "completed")>>, <<RichItem>>}

TriedUpdates ==
  PlainUpdates \cup {[content |-> "b", status |-> "in_progress", priority |-> "low"]}

TriedPriorities == {Undefined, "high", "low"}

\* C5: after initialization and after every operation, every list of
\* metadata.lists has totalTodos equal to the number of items in its item
\* file and completedTodos equal to the number of completed ones.
CountersMatchItems ==
  (Ready /\ MetadataLoaded(fs)) =>
    \A n \in DOMAIN Lists(fs) :
      /\ ReadFile(fs, ListFile(n)).kind = "array"
      /\ Counters(Lists(fs)[n]) = Counted(ItemsOf(fs, n))

\* C6: after every operation, a list's item file exists if and only if
\* metadata.lists has an entry of that name.
FilesMatchEntries ==
  (Ready /\ MetadataLoaded(fs)) =>
    \A n \in SimpleNames :
      (ReadFile(fs, ListFile(n)) # Absent) <=> (n \in DOMAIN Lists(fs))

\* C7, as claimed: in every reachable state no two items of one list have
\* the same id.
IdsAreUnique ==
  Ready => \A p \in AllPaths : DistinctIds(ItemsAt(fs, p))

\* C7, amended: a list whose ids are distinct keeps them distinct across
\* updateTodo and deleteTodo with any arguments, across addTodo when the
\* generated id is not yet in the target list, and across writeTodos of a
\* collection whose ids are distinct.
IdsStayUnique ==
  Ready =>
    \A l \in Names :
      /\ \A id \in Ids, upd \in TriedUpdates :
           \A updated \in {UpdateTodo(fs, id, upd, l)} : KeepsDistinct(fs, updated.fs)
      /\ \A id \in Ids :
           \A deleted \in {DeleteTodo(fs, id, l)} : KeepsDistinct(fs, deleted.fs)
      /\ \A generatedId \in Ids :
           \A added \in {AddTodo(fs, "a", Undefined, l, generatedId)} :
             (added.res = "ok" /\ generatedId \notin IdsOf(fs, TargetList(fs, l).ret))
             => KeepsDistinct(fs, added.fs)
      /\ \A todos \in TriedCollections :
           \A written \in {WriteTodos(fs, todos, l)} :
             DistinctIds(todos) => KeepsDistinct(fs, written.fs)

\* An update has just succeeded on a default list of two items with two ids.
IdsStayUniqueWitness ==
  /\ Ready
  /\ last = [res |-> "ok", op |-> "updateTodo"]
  /\ Len(ItemsOf(fs, NDefault)) = 2
  /\ DistinctIds(ItemsOf(fs, NDefault))
  /\ ItemsOf(fs, NDefault)[1].status = "completed"

AddTodoAppendsAndCounts ==
  (Ready /\ MetadataLoaded(fs)) =>
    \A l \in Names, content \in Contents, priority \in TriedPriorities, generatedId \in Ids :
      \A added \in {AddTodo(fs, content, priority, l, generatedId)} :
        added.res = "ok" =>
          LET target == TargetList(fs, l).ret IN
          /\ ItemsOf(added.fs, target) =
               Append(ItemsOf(fs, target),
                      [id |-> generatedId, content |-> content, status |-> "pending",
                       priority |-> IF priority = Undefined THEN "medium" ELSE priority])
          /\ target \in DOMAIN Lists(fs) =>
               /\ Lists(added.fs)[target].totalTodos = Lists(fs)[target].totalTodos + 1
               /\ Lists(added.fs)[target].completedTodos = Lists(fs)[target].completedTodos

\* C10: updateTodo(id, {status: 'completed'}) on an item that is not
\* completed raises the list's completedTodos by exactly 1 and leaves
\* totalTodos as it was; the same update applied again changes neither the
\* items nor the counters.
CompletingCountsOnce ==
  (Ready /\ MetadataLoaded(fs)) =>
    \A l \in Names, id \in Ids :
      \A first \in {UpdateTodo(fs, id, OnlyStatus("completed"), l)} :
        LET target == TargetList(fs, l).ret
            todos == ItemsOf(fs, target)
        IN (/\ first.res = "ok"
            /\ todos[FindIndex(todos, id)].status # "completed"
            /\ target \in DOMAIN Lists(fs))
           =>
           /\ Lists(first.fs)[target].completedTodos = Lists(fs)[target].completedTodos + 1
           /\ Lists(first.fs)[target].totalTodos = Lists(fs)[target].totalTodos
           /\ UpdateTodo(first.fs, id, OnlyStatus("completed"), l).fs = first.fs

\* The item that fields, where supplied, make of the item todo.
WithFields(todo, upd) ==
  [id |-> todo.id,
   content |-> IF upd.content = Undefined THEN todo.content ELSE upd.content,
   status |-> IF upd.status = Undefined THEN todo.status ELSE upd.status,
   priority |-> IF upd.priority = Undefined THEN todo.priority ELSE upd.priority]

\* C11: a successful updateTodo(id, fields) changes only the supplied fields
\* of the first item whose id is id: that item keeps its id and its other
\* fields, every other item of the list is as it was, and the list has the
\* same number of items in the same order; the updated item is returned.
UpdateChangesOnlySupplied ==
  Ready =>
    \A l \in Names, id \in Ids, upd \in TriedUpdates :
      \A updated \in {UpdateTodo(fs, id, upd, l)} :
        updated.res = "ok" =>
          LET target == TargetList(fs, l).ret
              before == ItemsOf(fs, target)
              after == ItemsOf(updated.fs, target)
              k == FindIndex(before, id)
          IN /\ k > 0
             /\ Len(after) = Len(before)
             /\ \A i \in 1..Len(before) :
                  after[i] = IF i = k THEN WithFields(before[k], upd) ELSE before[i]
             /\ updated.ret = [kind |-> "todo", todo |-> WithFields(before[k], upd)]

\* The second of two items has just been completed by an update, and the
\* first is where and what it was.
UpdateChangesOnlySuppliedWitness ==
  /\ Ready
  /\ last = [res |-> "ok", op |-> "updateTodo"]
  /\ ItemsOf(fs, NDefault) = <<Item("i2", "completed"), Item("i1", "completed")>>
  /\ UpdateTodo(fs, "i1", [content |-> "b", status |-> "in_progress", priority |-> "low"],
                NoName).res = "ok"

\* C12: a successful deleteTodo(id) removes exactly one item, the first in
\* list order whose id is id, and returns it; the remaining items keep their
\* relative order and the list's totalTodos goes down by exactly 1.
DeleteTodoRemovesFirst ==
  (Ready /\ MetadataLoaded(fs)) =>
    \A l \in Names, id \in Ids :
      \A deleted \in {DeleteTodo(fs, id, l)} :
        deleted.res = "ok" =>
          LET target == TargetList(fs, l).ret
              before == ItemsOf(fs, target)
              k == FindIndex(before, id)
          IN /\ k > 0
             /\ \A i \in 1..(k - 1) : before[i].id # id
             /\ ItemsOf(deleted.fs, target) =
                  SubSeq(before, 1, k - 1) \o SubSeq(before, k + 1, Len(before))
             /\ deleted.ret = [kind |-> "todo", todo |-> before[k]]
             /\ target \in DOMAIN Lists(fs) =>
                  Lists(deleted.fs)[target].totalTodos = Lists(fs)[target].totalTodos - 1

\* The names createList is tried with: every name, and one with a backslash.
CreatedNames == Names \cup BackslashNames

\* The names that contain '/' or '\'.
SeparatorNames == {NDotDefault, NSub, NUpMeta, NBackslash}

\* C13: createList(name) fails with invalid-input when name is empty or
\* contains '/' or '\', and with already-exists when metadata.lists has an
\* entry of that name; either way no file changes, so the metadata and the
\* items of every list, that of the existing list included, are as before.
CreateListRejects ==
  Ready =>
    \A n \in CreatedNames :
      \A created \in {CreateList(fs, n)} :
        /\ (n = NoName \/ n \in SeparatorNames)
             => created = Outcome(fs, "invalid", NoValue)
        /\ (MetadataLoaded(fs) /\ n \in DOMAIN Lists(fs))
             => created = Outcome(fs, "exists", NoValue)

\* createList('work') has just failed with already-exists on a store whose
\* list 'work' holds an item, and 'a/b' and 'a\b' are refused as invalid.
CreateListRejectsWitness ==
  /\ Ready
  /\ last = [res |-> "exists", op |-> "createList"]
  /\ MetadataLoaded(fs)
  /\ NWork \in DOMAIN Lists(fs)
  /\ Len(ItemsOf(fs, NWork)) = 1
  /\ CreateList(fs, NWork).res = "exists"
  /\ CreateList(fs, NSub).res = "invalid"
  /\ CreateList(fs, NBackslash).res = "invalid"

\* createList(n) succeeds for every n of names that is not empty, has no
\* separator and names no entry of metadata.lists, and leaves an entry with
\* zero counters, an empty item file, the active list and the other lists.
CreateListSucceedsFor(names) ==
  (Ready /\ MetadataLoaded(fs)) =>
    \A n \in names :
      (n # NoName /\ n \notin SeparatorNames /\ n \notin DOMAIN Lists(fs)) =>
        \A created \in {CreateList(fs, n)} :
          /\ created.res = "ok"
          /\ DOMAIN Lists(created.fs) = DOMAIN Lists(fs) \cup {n}
          /\ Counters(Lists(created.fs)[n]) = [totalTodos |-> 0, completedTodos |-> 0]
          /\ ReadTodos(created.fs, n) =
               Outcome(created.fs, "ok", [kind |-> "todos", todos |-> << >>])
          /\ ActiveList(created.fs) = ActiveList(fs)
          /\ \A m \in DOMAIN Lists(fs) :
               /\ Lists(created.fs)[m] = Lists(fs)[m]
               /\ ReadFile(created.fs, ListFile(m)) = ReadFile(fs, ListFile(m))

\* C14: createList(name) succeeds for every non-empty name that contains
\* neither '/' nor '\' and is not the name of an existing list; afterwards
\* metadata.lists has an entry for name with both counters 0, readTodos(name)
\* returns the empty collection, and activeList and all other lists are as
\* they were.
CreateListSucceeds == CreateListSucceedsFor(CreatedNames)

\* The legacy file holds an item collection and there is no metadata file.
LegacyToMigrate(f) ==
  ReadFile(f, PLegacy).kind = "array" /\ ReadFile(f, PMeta) = Absent

\* C15: when initialization runs with a legacy file holding the collection L
\* and no metadata file, afterwards the list 'default' holds the items of L
\* in the same order, activeList is 'default', and the counters of 'default'
\* are the number of items of L and the number of completed items of L.
MigrationKeepsItems ==
  LegacyToMigrate(fs) =>
    LET L == ParseTodos(ReadFile(fs, PLegacy))
        after == InitStore(fs)
    IN /\ MetadataLoaded(after)
       /\ ReadTodos(after, NDefault) =
            Outcome(after, "ok", [kind |-> "todos", todos |-> L])
       /\ ActiveList(after) = NDefault
       /\ NDefault \in DOMAIN Lists(after)
       /\ Lists(after)[NDefault].totalTodos = Len(L)
       /\ Lists(after)[NDefault].completedTodos =
            Cardinality({i \in 1..Len(L) : L[i].status = "completed"})

\* Initialization has just migrated a legacy file of three items, one of
\* them completed.
MigrationKeepsItemsWitness ==
  /\ Ready
  /\ last = [res |-> "migrated", op |-> "init"]
  /\ Len(ItemsOf(fs, NDefault)) = 3
  /\ Counters(Lists(fs)[NDefault]) = [totalTodos |-> 3, completedTodos |-> 1]

\* C16: whenever initialization runs with a legacy file present and no
\* metadata file, the legacy file is gone once initialization has completed,
\* whatever collection it held, the empty one included.
MigrationRemovesLegacy ==
  [][(Initialize /\ LegacyToMigrate(fs)) => ReadFile(fs', PLegacy) = Absent]_vars

\* The same, for the legacy files that hold at least one item.
MigrationRemovesNonEmptyLegacy ==
  [][(Initialize /\ LegacyToMigrate(fs) /\ FileLen(ReadFile(fs, PLegacy)) > 0)
       => ReadFile(fs', PLegacy) = Absent]_vars

\* C17: initialization on a store whose metadata file exists changes neither
\* the metadata nor the items of any list, with or without a legacy file;
\* and initialization run twice in a row leaves the store that one run
\* leaves, whatever the files were before.
InitIsIdempotent ==
  /\ ReadFile(fs, PMeta) # Absent =>
       \A p \in AllPaths \ {PLegacy} : ReadFile(InitStore(fs), p) = ReadFile(fs, p)
  /\ InitStore(InitStore(fs)) = InitStore(fs)

\* Initialization has just run on a store that has a metadata file, an item
\* in its default list and a legacy file with an item in it.
InitIsIdempotentWitness ==
  /\ Ready
  /\ last = [res |-> "ok", op |-> "init"]
  /\ MetadataLoaded(fs)
  /\ Len(ItemsOf(fs, NDefault)) = 1
  /\ FileLen(ReadFile(fs, PLegacy)) = 1
  /\ ItemsOf(fs, NDefault) # ItemsAt(fs, PLegacy)

\* The list-scoped operations called on f without a list name do what they
\* do when called with the name l.
OmittedNameMeans(f, l) ==
  /\ ReadTodos(f, NoName) = ReadTodos(f, l)
  /\ \A todos \in PlainCollections : WriteTodos(f, todos, NoName) = WriteTodos(f, todos, l)
  /\ \A generatedId \in Ids :
       AddTodo(f, "a", Undefined, NoName, generatedId) = AddTodo(f, "a", Undefined, l, generatedId)
  /\ \A id \in Ids, upd \in PlainUpdates :
       UpdateTodo(f, id, upd, NoName) = UpdateTodo(f, id, upd, l)
  /\ \A id \in Ids : DeleteTodo(f, id, NoName) = DeleteTodo(f, id, l)

\* A call without a list name acts on metadata.activeList, and after a
\* successful switchActiveList(n) that is n.
ActiveListIsTheDefaultTarget ==
  (Ready /\ MetadataLoaded(fs)) =>
    /\ OmittedNameMeans(fs, ActiveList(fs))
    /\ \A n \in Names :
         \A switched \in {SwitchActiveList(fs, n)} :
           switched.res = "ok" =>
             /\ GetActiveListName(switched.fs) =
                  Outcome(switched.fs, "ok", [kind |-> "name", name |-> n])
             /\ OmittedNameMeans(switched.fs, n)

\* The active list stays what it is from one call to the next, except across
\* a successful switchActiveList and across the deletion of the active list.
ActiveListChangesOnlyBySwitchOrDelete ==
  (Ready /\ MetadataLoaded(fs)) =>
    \/ MetadataLoaded(fs') /\ ActiveList(fs') = ActiveList(fs)
    \/ last' = [res |-> "ok", op |-> "switchActiveList"]
    \/ /\ last' = [res |-> "ok", op |-> "deleteList"]
       /\ MetadataLoaded(fs')
       /\ ActiveList(fs) \notin DOMAIN Lists(fs')

\* C18: every list-scoped operation called without a list name acts on the
\* list metadata.activeList names at the time of the call; after
\* switchActiveList(n) succeeds getActiveListName() returns n, and such calls
\* act on n until the next successful switchActiveList or the deletion of n.
ActiveListIsSticky ==
  /\ []ActiveListIsTheDefaultTarget
  /\ [][ActiveListChangesOnlyBySwitchOrDelete]_vars

\* The request lacks an argument its tool requires, or names no tool.
LacksRequired(request) ==
  \/ request.name \notin ToolNames
  \/ request.name = "todo_write" /\ request.arguments.todos = NotGiven
  \/ request.name = "todo_add" /\ request.arguments.content = Undefined
  \/ request.name \in {"todo_update", "todo_delete"} /\ request.arguments.id = Undefined
  \/ /\ request.name \in {"todo_list_create", "todo_list_delete", "todo_list_switch"}
     /\ request.arguments.list_name = NoName

\* Every request of requests is answered, a failing one with an error
\* result, and a request that would have succeeded before a failed one is
\* answered after it as it would have been before it.
ServerKeepsServingFor(requests) ==
  Ready =>
    \A request \in requests :
      \A called \in {CallTool(fs, request, "i1")} :
        /\ ~called.raised
        /\ (LacksRequired(request) \/ Dispatch(fs, request, "i1").res # "ok")
             => called.response.isError
        /\ called.response.isError =>
             \A next \in requests :
               \A normal \in {CallTool(fs, next, "i2")} :
                 (~normal.raised /\ ~normal.response.isError)
                   => CallTool(called.fs, next, "i2") = normal

\* C19: the tool-call handler answers every failing call (a required
\* argument absent, an unknown tool name, an error raised by the store) with
\* an error result instead of raising, and the server stays able to serve: a
\* valid call made after any failed call is processed normally.
ServerKeepsServing == ServerKeepsServingFor(Requests)

\* How the command methods end on f, for the names, ids and fields in use.
CliEndings(f) ==
  UNION {{CliCreateList(f, n), CliDeleteList(f, n), CliSwitchList(f, n),
          CliListTodos(f, n), CliStatus(f, n)} : n \in PlainNames \cup {NSub}}
  \cup {CliAddTodo(f, "a", Undefined, n, "i1") : n \in PlainNames}
  \cup {CliUpdateTodo(f, id, OnlyStatus("completed"), n) : id \in CliIds, n \in PlainNames}
  \cup {CliDeleteTodo(f, id, n) : id \in CliIds, n \in PlainNames}

\* C20: every command method of the CLI (createList, deleteList, switchList,
\* addTodo, updateTodo, deleteTodo, listTodos, status) that fails, because the
\* store is not initialized, the list is not found, the id is not found or
\* the name is invalid, prints a message and returns without raising.
CliFailuresArePrinted == last.res # "raised"

\* The same, for the failures the methods test for themselves: an invalid or
\* taken name, the default list, a list not in the metadata, an id not found.
CliTestedFailuresArePrinted ==
  \A ended \in CliEndings(fs) :
    ended.message \in {"invalid", "exists", "protected", "idnotfound"}
      => ~ended.raised /\ ended.fs = fs

\* How the operations of the store end on f, for every name and the ids,
\* collections and fields in use.
StoreOutcomes(f) ==
  UNION {{ReadTodos(f, l), DeleteList(f, l), SwitchActiveList(f, l), CreateList(f, l)}
         \cup {WriteTodos(f, todos, l) : todos \in PlainCollections}
         \cup {AddTodo(f, "a", Undefined, l, generatedId) : generatedId \in Ids}
         \cup {UpdateTodo(f, id, upd, l) : id \in Ids, upd \in PlainUpdates}
         \cup {DeleteTodo(f, id, l) : id \in Ids} : l \in Names}

\* C21: every operation of the store that signals not-found (updateTodo or
\* deleteTodo with an id no item of the target list has, switchActiveList or
\* deleteList with a name that is not in the metadata, readTodos or addTodo
\* on a list with no item file) leaves every file as it was: the metadata and
\* the items of every list.
NotFoundChangesNothing ==
  Ready => \A outcome \in StoreOutcomes(fs) : outcome.res = "notfound" => outcome.fs = fs

\* deleteTodo has just signalled not-found on a default list that holds an
\* item with another id, and switchActiveList('work') would signal it too.
NotFoundChangesNothingWitness ==
  /\ Ready
  /\ last = [res |-> "notfound", op |-> "deleteTodo"]
  /\ ItemsOf(fs, NDefault) = <<Item("i1", "pending")>>
  /\ DeleteTodo(fs, "i2", NoName).res = "notfound"
  /\ SwitchActiveList(fs, NWork).res = "notfound"
  /\ ReadTodos(fs, NWork).res = "notfound"

\* How the operations that take a list name end on f when the name is l.
NamedOutcomes(f, l) ==
  {CreateList(f, l), ReadTodos(f, l)}
  \cup {WriteTodos(f, todos, l) : todos \in PlainCollections}
  \cup {AddTodo(f, "a", Undefined, l, generatedId) : generatedId \in Ids}
  \cup {UpdateTodo(f, id, upd, l) : id \in Ids, upd \in PlainUpdates}
  \cup {DeleteTodo(f, id, l) : id \in Ids}

\* C22: no operation of the store creates or overwrites an item file for a
\* list name that contains '/' or '\': createList, writeTodos, addTodo,
\* updateTodo, deleteTodo and readTodos either reject such a name or leave
\* every file as it was.
SeparatorNamesWriteNothing ==
  Ready =>
    \A l \in SeparatorNames :
      \A outcome \in NamedOutcomes(fs, l) : outcome.res = "invalid" \/ outcome.fs = fs

\* C23: with two processes running operations on the same list, their file
\* reads and writes interleaved in any order, whenever no operation is in
\* progress the list's totalTodos and completedTodos in metadata equal the
\* counts derived from the list's item file.
RaceCountersMatchItems ==
  (Quiet /\ MetadataLoaded(fs)) =>
    \A n \in DOMAIN Lists(fs) :
      (procs["p1"].list = n /\ procs["p2"].list = n) =>
        /\ ReadFile(fs, ListFile(n)).kind = "array"
        /\ Counters(Lists(fs)[n]) = Counted(ItemsOf(fs, n))

\* Both processes ran addTodo on list n and both calls returned.
BothAdded(n) ==
  \A p \in Procs :
    /\ procs[p].op = "addTodo"
    /\ procs[p].list = n
    /\ procs[p].pc = "done"
    /\ procs[p].res = "ok"

\* C24: when two processes run addTodo on the same list, in every
\* interleaving of their file reads and writes the final item collection is
\* the whole collection one of the two wrote: it starts with all items
\* present before the race and holds at least one of the two new items.
LastWriteWins ==
  \A n \in RaceNames :
    BothAdded(n) =>
      LET final == ItemsOf(fs, n)
          before == ItemsOf(initial, n)
      IN /\ \E p \in Procs : final = procs[p].todos
         /\ Len(final) > Len(before)
         /\ SubSeq(final, 1, Len(before)) = before
         /\ \E p \in Procs : \E i \in Len(before) + 1 .. Len(final) :
              final[i] = Item(OwnId[p], "pending")

\* Both calls returned and the item of process 1 is lost.
LastWriteWinsWitness ==
  /\ BothAdded(NDefault)
  /\ ItemsOf(initial, NDefault) = <<Item("i3", "pending")>>
  /\ ItemsOf(fs, NDefault) = <<Item("i3", "pending"), Item("i2", "pending")>>

\* The item with the given id is among those readTodos() returns.
Returns(store, id) ==
  /\ ReadTodos(store, NoName).res = "ok"
  /\ \E i \in 1..Len(ReadTodos(store, NoName).ret.todos) :
       ReadTodos(store, NoName).ret.todos[i].id = id

\* C25: the command line and the server, started with the same environment
\* variables and the same working directory, resolve the same store root: an
\* item added through one is returned by a read through the other.
SameStoreRoot ==
  /\ (last.op = "add" /\ last.res = "ok") =>
        \A build \in Builds :
          /\ ServerRoot(build, fs, last.env) = CliRoot(last.env)
          /\ Returns(ServerStartAt(build, fs, last.env)[ServerRoot(build, fs, last.env)], "i1")
  /\ (last.op = "todo_add" /\ last.res = "ok") =>
        /\ ServerRoot(last.build, fs, last.env) = CliRoot(last.env)
        /\ Returns(fs[CliRoot(last.env)], "i1")

\* C26: watch mode is read-only: no step of watchTodos (the initial render,
\* a refresh after a change notification, a refresh skipped after a failed
\* read, the interrupt handler) changes the metadata file or any item file.
WatchIsReadOnly == [][procs'["p1"] # procs["p1"] => fs' = fs]_vars

\* The watcher shows what another process wrote after the watch began.
WatchIsReadOnlyWitness ==
  /\ procs["p1"].op = "watch"
  /\ procs["p1"].pc = "watch.watching"
  /\ procs["p1"].res = "refreshed"
  /\ procs["p1"].list = NWork
  /\ procs["p1"].todos = <<Item("i3", "completed")>>
  /\ ItemsOf(fs, NWork) = procs["p1"].todos

\* C27: the initialization the constructor starts without awaiting never
\* destroys what a tool call wrote: for every interleaving of init's file
\* steps with a writeTodos or addTodo on 'default' that returns, once both
\* have ended readTodos('default') returns the items the call saved.
InitKeepsWrites ==
  (/\ \A p \in Procs : procs[p].pc = "done"
   /\ procs["p2"].res = "ok"
   /\ procs["p2"].list = NDefault) =>
    ReadTodos(fs, NDefault) =
      Outcome(fs, "ok", [kind |-> "todos", todos |-> procs["p2"].todos])

\* Process p ran an operation that returned, on a list that was there when the
\* race began or that the operation created.
RanOn(p, n) ==
  /\ procs[p].pc = "done"
  /\ procs[p].res = "ok"
  /\ procs[p].list = n
  /\ procs[p].op = "createList" \/ n \in DOMAIN Lists(initial)

\* C28: two processes that run operations on two different lists do not
\* interfere: in every interleaving, after both have returned, each list's
\* metadata entry is present and its counters equal the counts derived from
\* its own item file.
ListsDoNotInterfere ==
  \A x, y \in RaceNames :
    (x # y /\ RanOn("p1", x) /\ RanOn("p2", y)) =>
      \A n \in {x, y} :
        /\ n \in DOMAIN Lists(fs)
        /\ Counters(Lists(fs)[n]) = Counted(ItemsOf(fs, n))

\* The calls that write the items of list l.
ItemWrites(f, l) ==
  {WriteTodos(f, todos, l) : todos \in TriedCollections}
  \cup {AddTodo(f, "a", Undefined, l, generatedId) : generatedId \in Ids}
  \cup {UpdateTodo(f, id, upd, l) : id \in Ids, upd \in TriedUpdates}
  \cup {DeleteTodo(f, id, l) : id \in Ids}

\* From f to g, only list x changed, and of its entry neither created nor
\* description.
OnlyListChanged(f, g, x) ==
  /\ MetadataLoaded(g)
  /\ ActiveList(g) = ActiveList(f)
  /\ DOMAIN Lists(g) = DOMAIN Lists(f)
  /\ \A n \in DOMAIN Lists(f) \ {x} :
       /\ ReadFile(g, ListFile(n)) = ReadFile(f, ListFile(n))
       /\ Lists(g)[n] = Lists(f)[n]
  /\ x \in DOMAIN Lists(f) =>
       /\ Lists(g)[x].created = Lists(f)[x].created
       /\ Lists(g)[x].description = Lists(f)[x].description

OnlyTargetChangesFor(names) ==
  (Ready /\ MetadataLoaded(fs)) =>
    \A l \in names :
      \A written \in ItemWrites(fs, l) :
        written.res = "ok" =>
          OnlyListChanged(fs, written.fs, IF l = NoName THEN ActiveList(fs) ELSE l)

\* C29: a successful writeTodos, addTodo, updateTodo or deleteTodo on list X
\* leaves activeList, the items of every other list and the metadata entry
\* (counters, created, lastModified, description) of every other list as they
\* were, and leaves X's own created and description as they were.
OnlyTargetChanges == OnlyTargetChangesFor(Names)

\* The places of the items whose id starts with the given string.
Matches(todos, id) == {i \in 1..Len(todos) : StartsWith(todos[i].id, id)}

\* The first of a non-empty set of places.
First(places) == CHOOSE i \in places : \A j \in places : i <= j

\* C30: the command line's updateTodo and deleteTodo match ids by prefix and
\* act on exactly one item, the first in list order whose id starts with the
\* given string; when no item's id starts with it they report not-found and
\* write nothing.
CliMatchesFirstPrefix ==
  \A l \in Names, id \in CliIds :
    \A target \in {TargetList(fs, l)} :
      (/\ MetadataLoaded(fs)
       /\ target.res = "ok"
       /\ target.ret \in DOMAIN ListFiles
       /\ ReadFile(fs, ListFile(target.ret)).kind = "array") =>
        LET todos == ItemsOf(fs, target.ret)
            places == Matches(todos, id)
        IN /\ \A upd \in TriedUpdates :
                \A ended \in {CliUpdateTodo(fs, id, upd, l)} :
                  IF places = {}
                  THEN ended = Printed(fs, "idnotfound")
                  ELSE /\ ended = Printed(ended.fs, "ok")
                       /\ ItemsOf(ended.fs, target.ret) =
                            [todos EXCEPT ![First(places)] = WithFields(@, upd)]
           /\ \A ended \in {CliDeleteTodo(fs, id, l)} :
                IF places = {}
                THEN ended = Printed(fs, "idnotfound")
                ELSE /\ ended = Printed(ended.fs, "ok")
                     /\ ItemsOf(ended.fs, target.ret) =
                          [i \in 1..Len(todos) - 1 |->
                             IF i < First(places) THEN todos[i] ELSE todos[i + 1]]

\* `update i --status completed` just acted on the first of two items whose
\* ids start with "i", and `delete i` would remove that item only.
CliMatchesFirstPrefixWitness ==
  /\ last = [res |-> "ok", op |-> "update"]
  /\ ItemsOf(fs, NDefault) = <<Item("i1", "completed"), Item("i2", "pending")>>
  /\ Matches(ItemsOf(fs, NDefault), "i") = {1, 2}
  /\ CliUpdateTodo(fs, "i", OnlyStatus("pending"), NoName).fs # fs
  /\ ItemsOf(CliDeleteTodo(fs, "i", NoName).fs, NDefault) = <<Item("i2", "pending")>>

====
